---- MODULE Spec2Model ----
(***************************************************************************)
(* S3-FIFO cache (src/src/storage/cache/s3fifo.rs): the small, main and    *)
(* ghost queues, the entry table with its per-entry frequency counter, and *)
(* the two public operations get and insert.  Each public call is one      *)
(* action; the private helpers insert_s, insert_m, insert_g and evict_m    *)
(* are operators on a run record that the action applies in the order the  *)
(* code calls them.                                                        *)
(***************************************************************************)
EXTENDS Integers, Sequences, FiniteSets, TLC

\* ---------------------------------------------------------------- bounds
\* keys are 1..NumKeys: one more than small and main hold together
NumKeys == 3
\* values are 1..NumVals: two, so that a replaced value shows
NumVals == 2
\* Cache::new is called with a capacity in 1..MaxCapacity
MaxCapacity == 2
\* step budget of one call: pushes into main plus evict_m iterations
MaxSteps == 40
\* calls made on one cache
MaxCalls == 7
\* tasks sent to the store's writes channel
NumTasks == 3
\* capacity of the writes channel (bounded(100) in the test, bounded(10000)
\* in StoreInner::new)
WritesCapacity == 2
\* callers of Store::close
NumClosers == 2

Keys == 1..NumKeys
Values == 1..NumVals
Capacities == 1..MaxCapacity
\* capacities with a main queue of two slots, with the capacity of the spec's
\* worked examples, and with a small queue of two slots
WideCapacities == {3, 10, 20}

\* ------------------------------------------------------------- constants
MAX_FREQUENCY_LIMIT == 3
U8_MODULUS == 256
SMALL_DIVISOR == 10
\* capacity of the stop channel
STOP_CAPACITY == 1

\* Option<T>: None, or Some(x) holding x
None == <<>>
Some(x) == <<x>>

VARIABLES
    max_cache_size,   \* the argument Cache::new was called with
    small_capacity,   \* capacity of the HeapRb `small`
    main_capacity,    \* capacity of the HeapRb `main`
    ghost_capacity,   \* GhostQueue.capacity
    small,            \* Cache.small, head first
    main,             \* Cache.main, head first
    ghost,            \* GhostQueue.queue (IndexSet), in insertion order
    entries,          \* Cache.entries: key -> [value, freq]
    panicked,         \* a call unwound through an unwrap() on None
    calls,            \* the number of calls made so far
    last,             \* the last call: its arguments, its result and the steps it took
    hist,             \* what a tracked run remembers of the calls made so far
    threads,          \* the threads that share the cache behind a Mutex, and the Mutex
    store             \* the key-value store: its channels, its task runner, its close calls

vars == <<max_cache_size, small_capacity, main_capacity, ghost_capacity,
          small, main, ghost, entries, panicked, calls, last, hist,
          threads, store>>

\* the cache and what is recorded about the calls made on it
cache_vars == <<max_cache_size, small_capacity, main_capacity, ghost_capacity,
                small, main, ghost, entries, panicked, calls, last, hist,
                threads>>

\* ---------------------------------------------------------------- helpers
Max(a, b) == IF a >= b THEN a ELSE b

Range(s) == {s[i] : i \in 1..Len(s)}

\* the function f without the key k
MapRemove(f, k) == [x \in (DOMAIN f) \ {k} |-> f[x]]

\* the function f with k bound to e (HashMap::insert)
MapInsert(f, k, e) == [x \in (DOMAIN f) \cup {k} |-> IF x = k THEN e ELSE f[x]]

EmptyMap == [x \in {} |-> 0]

\* ------------------------------------------------------------------ Entry
\* (variant: a new entry counts its own insertion as an access)
Entry_new_counted(key, value) == [value |-> value, freq |-> 1]

Entry_new(key, value) == [value |-> value, freq |-> 0]

\* --------------------------------------------------- ringbuf::HeapRb<K>
\* (variant: a full ring gives up its newest key instead of its head)
push_overwrite_newest(q, capacity, key) ==
    IF Len(q) = capacity
    THEN [q |-> Append(SubSeq(q, 1, Len(q) - 1), key), victim |-> Some(q[Len(q)])]
    ELSE [q |-> Append(q, key), victim |-> None]

\* Rb::push_overwrite: a full ring pops its head and returns it, then pushes.
push_overwrite(q, capacity, key) ==
    IF Len(q) = capacity
    THEN [q |-> Append(Tail(q), key), victim |-> Some(Head(q))]
    ELSE [q |-> Append(q, key), victim |-> None]

\* ------------------------------------------------------------ GhostQueue
\* (variant: the first, oldest value is removed)
GhostQueue_evict_oldest(queue) ==
    IF Len(queue) = 0 THEN queue ELSE Tail(queue)

\* IndexSet::pop removes the last (most recently inserted) value.
GhostQueue_evict(queue) ==
    IF Len(queue) = 0 THEN queue ELSE SubSeq(queue, 1, Len(queue) - 1)

\* (variant: the insertion is dropped)
IndexSet_insert_dropped(queue, key) == queue

\* IndexSet::insert leaves the set and its order alone when the key is present.
IndexSet_insert(queue, key) ==
    IF key \in Range(queue) THEN queue ELSE Append(queue, key)

\* (variant: the push without the eviction of a full queue)
GhostQueue_push_unbounded(queue, capacity, key) == IndexSet_insert(queue, key)

\* (variant: a full queue refuses the key)
GhostQueue_push_refusing(queue, capacity, key) ==
    IF Len(queue) = capacity THEN queue ELSE IndexSet_insert(queue, key)

GhostQueue_push(queue, capacity, key) ==
    IndexSet_insert(IF Len(queue) = capacity THEN GhostQueue_evict(queue) ELSE queue,
                    key)

\* (variant: no key is ever found)
GhostQueue_contains_never(queue, key) == FALSE

GhostQueue_contains(queue, key) == key \in Range(queue)

\* ------------------------------------------------------------ Cache::new
\* (variant: the tenth of the capacity without the lower limit of 1)
MaxSmallSize_unclamped(c) == c \div SMALL_DIVISOR

MaxSmallSize(c) == Max(c \div SMALL_DIVISOR, 1)
MaxMainSize(c) == Max(c - MaxSmallSize(c), 1)

Cache_new(c) ==
    [small_capacity |-> MaxSmallSize(c),
     main_capacity  |-> MaxMainSize(c),
     ghost_capacity |-> MaxMainSize(c),
     small |-> <<>>, main |-> <<>>, ghost |-> <<>>,
     entries |-> EmptyMap]

\* --------------------------------------------------- frequency counter
\* (variant: the increment without the limit test)
freq_after_get_unlimited(f) == (f + 1) % U8_MODULUS

\* Cache::get: load, then store freq + 1 below the limit
freq_after_get(f) == IF f < MAX_FREQUENCY_LIMIT THEN f + 1 ELSE f

\* (variant: the counter is lowered by two)
fetch_sub_twice(f) == (f + U8_MODULUS - 2) % U8_MODULUS

\* AtomicU8::fetch_sub(1): wrapping subtraction
fetch_sub(f) == (f + U8_MODULUS - 1) % U8_MODULUS

\* sum of the freq counters of the entries whose keys are in the set ks
RECURSIVE FreqSum(_, _)
FreqSum(ents, ks) ==
    IF ks = {} THEN 0
    ELSE LET k == CHOOSE x \in ks : TRUE
         IN (IF k \in DOMAIN ents THEN ents[k].freq ELSE 0) + FreqSum(ents, ks \ {k})

\* ------------------------------------------------------------ run record
\* The state a call works on: the cache fields, whether the call has unwound
\* (panicked), whether it ran out of the step budget (diverged), and the log
\* of the steps the helpers took.
Ev(ev, key, freq, st) ==
    [ev |-> ev, key |-> key, freq |-> freq,
     sum |-> IF ev = "reinsert"
             THEN FreqSum(st.entries, Range(st.main) \cup {key})
             ELSE 0]

Log(st, ev, key, freq) == [st EXCEPT !.log = Append(@, Ev(ev, key, freq, st))]

Panic(st) == [st EXCEPT !.panicked = TRUE]

Stopped(st) == st.panicked \/ st.diverged

\* (variant: the victim leaves its queue but stays in the table)
entries_remove_skipped(st, victim) ==
    Log(st, "remove", victim, st.entries[victim].freq)

\* (variant: every removed victim is recorded in ghost)
entries_remove_recorded(st, victim) ==
    Log([st EXCEPT !.entries = MapRemove(@, victim),
                   !.ghost = GhostQueue_push(@, st.ghost_capacity, victim)],
        "remove", victim, st.entries[victim].freq)

\* entries.remove(&victim)
entries_remove(st, victim) ==
    Log([st EXCEPT !.entries = MapRemove(@, victim)], "remove", victim,
        st.entries[victim].freq)

\* (variant: the victim is re-inserted with its counter untouched)
entry_fetch_sub_skipped(st, victim) == st

\* entries.get(&victim).unwrap().freq.fetch_sub(1, Relaxed)
entry_fetch_sub(st, victim) ==
    [st EXCEPT !.entries[victim].freq = fetch_sub(@)]

\* (variant: the promoted victim keeps its counter)
entry_store_zero_skipped(st, victim) == st

\* entries.get(&victim).unwrap().freq.store(0, Relaxed)
entry_store_zero(st, victim) ==
    [st EXCEPT !.entries[victim].freq = 0]

\* ------------------------------------------------------ Cache::insert_g
\* (variant: the key is not recorded)
insert_g_skipped(st, key) == Log(st, "ghost_push", key, 0)

insert_g(st, key) ==
    Log([st EXCEPT !.ghost = GhostQueue_push(@, st.ghost_capacity, key)],
        "ghost_push", key, 0)

\* ------------------------------------- Cache::insert_m / Cache::evict_m
RECURSIVE insert_m(_, _), evict_m_loop(_, _)

\* a call of evict_m; a call that has unwound calls nothing further
evict_m(st) ==
    IF Stopped(st) THEN st ELSE evict_m_loop(Log(st, "evict_m", 0, 0), FALSE)

insert_m(st, key) ==
    IF Stopped(st) THEN st
    ELSE IF st.fuel = 0 THEN [st EXCEPT !.diverged = TRUE]
    ELSE
      LET r  == push_overwrite(st.main, st.main_capacity, key)
          s1 == Log([st EXCEPT !.main = r.q, !.fuel = @ - 1], "push_main", key, 0)
          victim == r.victim[1]
      IN IF r.victim = None THEN s1
         ELSE IF victim \notin DOMAIN s1.entries
              THEN Panic(Log(s1, "pop_main", victim, -1))
         ELSE LET f  == s1.entries[victim].freq
                  s2 == Log(s1, "pop_main", victim, f)
              IN IF f = 0 THEN entries_remove(s2, victim)
                 ELSE LET s3 == entry_fetch_sub(s2, victim)
                          s4 == Log(s3, "reinsert", victim, s3.entries[victim].freq)
                      IN evict_m(insert_m(s4, victim))

evict_m_loop(st, evicted) ==
    IF Stopped(st) THEN st
    ELSE IF evicted \/ Len(st.main) = 0 THEN st
    ELSE IF st.fuel = 0 THEN [st EXCEPT !.diverged = TRUE]
    ELSE
      LET victim == Head(st.main)
          s1 == [st EXCEPT !.main = Tail(@), !.fuel = @ - 1]
      IN IF victim \notin DOMAIN s1.entries
         THEN Panic(Log(s1, "pop_main", victim, -1))
         ELSE LET f  == s1.entries[victim].freq
                  s2 == Log(s1, "pop_main", victim, f)
              IN IF f = 0 THEN evict_m_loop(entries_remove(s2, victim), TRUE)
                 ELSE LET s3 == entry_fetch_sub(s2, victim)
                          s4 == Log(s3, "reinsert", victim, s3.entries[victim].freq)
                      IN evict_m_loop(insert_m(s4, victim), FALSE)

\* ------------------------------------------------------ Cache::insert_s
\* (variant: the key is admitted to main, small is bypassed)
insert_s_bypassed(st, key) == insert_m(st, key)

\* (variant: the small victim moves to main whatever its counter)
insert_s_promoting(st, key) ==
    LET r  == push_overwrite(st.small, st.small_capacity, key)
        s1 == Log([st EXCEPT !.small = r.q], "push_small", key, 0)
        victim == r.victim[1]
    IN IF r.victim = None THEN s1
       ELSE IF victim \notin DOMAIN s1.entries
            THEN Panic(Log(s1, "pop_small", victim, -1))
       ELSE LET s2 == Log(s1, "pop_small", victim, s1.entries[victim].freq)
            IN insert_m(Log(entry_store_zero(s2, victim), "promote", victim, 0),
                        victim)

insert_s(st, key) ==
    LET r  == push_overwrite(st.small, st.small_capacity, key)
        s1 == Log([st EXCEPT !.small = r.q], "push_small", key, 0)
        victim == r.victim[1]
    IN IF r.victim = None THEN s1
       ELSE IF victim \notin DOMAIN s1.entries
            THEN Panic(Log(s1, "pop_small", victim, -1))
       ELSE LET f  == s1.entries[victim].freq
                s2 == Log(s1, "pop_small", victim, f)
            IN IF f = 0 THEN insert_g(entries_remove(s2, victim), victim)
               ELSE insert_m(Log(entry_store_zero(s2, victim), "promote", victim, 0),
                             victim)

\* -------------------------------------------------------- Cache::insert
\* (variant: every absent key is admitted to small, ghost is not consulted)
insert_unrouted(st, key, value) ==
    IF key \in DOMAIN st.entries THEN [st EXCEPT !.ret = Some(FALSE)]
    ELSE LET s1 == insert_s(st, key)
         IN IF Stopped(s1) THEN s1
            ELSE [s1 EXCEPT !.entries = MapInsert(@, key, Entry_new(key, value)),
                            !.ret = Some(TRUE)]

\* (variant: the key is admitted without the contains_key test)
insert_unchecked(st, key, value) ==
    LET s1 == IF GhostQueue_contains(st.ghost, key)
              THEN insert_m(Log(st, "ghost_hit", key, 0), key)
              ELSE insert_s(st, key)
    IN IF Stopped(s1) THEN s1
       ELSE [s1 EXCEPT !.entries = MapInsert(@, key, Entry_new(key, value)),
                       !.ret = Some(TRUE)]

\* (variant: a present key has its value replaced, as HashMap::insert would)
insert_replacing(st, key, value) ==
    IF key \in DOMAIN st.entries
    THEN [st EXCEPT !.entries[key].value = value, !.ret = Some(FALSE)]
    ELSE LET s1 == IF GhostQueue_contains(st.ghost, key)
                   THEN insert_m(Log(st, "ghost_hit", key, 0), key)
                   ELSE insert_s(st, key)
         IN IF Stopped(s1) THEN s1
            ELSE [s1 EXCEPT !.entries = MapInsert(@, key, Entry_new(key, value)),
                            !.ret = Some(TRUE)]

\* ret is Some(b) for the bool the call returns, None when the call unwound.
insert(st, key, value) ==
    IF key \in DOMAIN st.entries THEN [st EXCEPT !.ret = Some(FALSE)]
    ELSE LET s1 == IF GhostQueue_contains(st.ghost, key)
                   THEN insert_m(Log(st, "ghost_hit", key, 0), key)
                   ELSE insert_s(st, key)
         IN IF Stopped(s1) THEN s1
            ELSE [s1 EXCEPT !.entries = MapInsert(@, key, Entry_new(key, value)),
                            !.ret = Some(TRUE)]

\* ----------------------------------------------------------- Cache::get
\* (variant: a miss consumes the key's ghost record)
get_consuming_ghost(st, key) ==
    IF key \in DOMAIN st.entries
    THEN [st EXCEPT !.entries[key].freq = freq_after_get(@),
                    !.ret = Some(st.entries[key].value)]
    ELSE [st EXCEPT !.ghost = SelectSeq(@, LAMBDA x : x # key), !.ret = None]

\* (variant: a hit returns the value without counting the access)
get_uncounted(st, key) ==
    IF key \in DOMAIN st.entries
    THEN [st EXCEPT !.ret = Some(st.entries[key].value)]
    ELSE [st EXCEPT !.ret = None]

\* ret is Some(v) for Some(&entry.value), or None.
get(st, key) ==
    IF key \in DOMAIN st.entries
    THEN [st EXCEPT !.entries[key].freq = freq_after_get(@),
                    !.ret = Some(st.entries[key].value)]
    ELSE [st EXCEPT !.ret = None]

\* ------------------------------------------------------------ the machine
Self ==
    [small_capacity |-> small_capacity, main_capacity |-> main_capacity,
     ghost_capacity |-> ghost_capacity,
     small |-> small, main |-> main, ghost |-> ghost, entries |-> entries]

Start(c) ==
    [small_capacity |-> c.small_capacity, main_capacity |-> c.main_capacity,
     ghost_capacity |-> c.ghost_capacity,
     small |-> c.small, main |-> c.main, ghost |-> c.ghost, entries |-> c.entries,
     panicked |-> FALSE, diverged |-> FALSE, fuel |-> MaxSteps,
     log |-> <<>>, ret |-> None]

\* The call returns (or unwinds): the cache is left as the call left it.
Return(op, key, value, st) ==
    /\ small' = st.small
    /\ main' = st.main
    /\ ghost' = st.ghost
    /\ entries' = st.entries
    /\ panicked' = st.panicked
    /\ last' = [op |-> op, key |-> key, value |-> value, ret |-> st.ret,
                present |-> key \in DOMAIN entries,
                freq |-> IF op = "get" /\ key \in DOMAIN entries
                         THEN Some(entries[key].freq) ELSE None,
                log |-> st.log, diverged |-> st.diverged]
    /\ UNCHANGED <<max_cache_size, small_capacity, main_capacity, ghost_capacity,
                   threads, store>>

\* A call of a run whose calls are counted.
Commit(op, key, value, st) ==
    /\ Return(op, key, value, st)
    /\ calls' = calls + 1

\* Nothing has been demoted yet.
NoHistory == [demoted |-> {}, newest |-> None, waiting |-> EmptyMap]

\* No store has been opened around the cache.
NoStore == [opened |-> FALSE]

\* The cache is owned by one caller: no thread has been spawned.
NoThreads ==
    [spawned |-> 0, pc |-> EmptyMap, local |-> EmptyMap, holder |-> None,
     poisoned |-> FALSE, order |-> <<>>]

NoCall ==
    [op |-> "new", key |-> 0, value |-> 0, ret |-> None,
     present |-> FALSE, freq |-> None, log |-> <<>>, diverged |-> FALSE]

Init ==
    \E c \in Capacities :
        LET n == Cache_new(c)
        IN /\ max_cache_size = c
           /\ small_capacity = n.small_capacity
           /\ main_capacity = n.main_capacity
           /\ ghost_capacity = n.ghost_capacity
           /\ small = n.small
           /\ main = n.main
           /\ ghost = n.ghost
           /\ entries = n.entries
           /\ panicked = FALSE
           /\ calls = 0
           /\ last = NoCall
           /\ hist = NoHistory
           /\ threads = NoThreads
           /\ store = NoStore

\* A call that unwound or did not return ends the run: no call follows it.
\* A run makes at most MaxCalls calls.
Running == ~panicked /\ ~last.diverged /\ calls < MaxCalls

Get ==
    /\ Running
    /\ \E k \in Keys : Commit("get", k, 0, get(Start(Self), k))
    /\ UNCHANGED hist

Insert ==
    /\ Running
    /\ \E k \in Keys, v \in Values : Commit("insert", k, v, insert(Start(Self), k, v))
    /\ UNCHANGED hist

Next == Get \/ Insert

Spec == Init /\ [][Next]_vars

\* Runs in which get is never called.
SpecInsertOnly == Init /\ [][Insert]_vars

\* ------------------------------------------------------------ tracked runs
\* The same calls, with a record of which keys insert_s has handed to insert_g.
\* demoted: the keys demoted to ghost and not inserted since; newest: the key
\* of the latest demotion, while no insert of it and no other demotion followed;
\* waiting: for each key admitted to small and neither looked up nor inserted
\* again since, the number of keys admitted to small after it (counted up to
\* the capacity of small).
GhostPushed(log) == {log[i].key : i \in {j \in DOMAIN log : log[j].ev = "ghost_push"}}

Track(op, key, st) ==
    LET pushed == GhostPushed(st.log)
        kept == IF op = "insert" THEN hist.demoted \ {key} ELSE hist.demoted
        admitted == op = "insert" /\ st.ret = Some(TRUE)
        to_small == admitted /\ \E i \in DOMAIN st.log : st.log[i].ev = "push_small"
        hit == op = "get" /\ st.ret # None
        others == IF admitted \/ hit THEN MapRemove(hist.waiting, key)
                  ELSE hist.waiting
        aged == [k \in DOMAIN others |->
                    IF to_small /\ others[k] < st.small_capacity
                    THEN others[k] + 1 ELSE others[k]]
    IN [demoted |-> kept \cup pushed,
        newest |-> IF pushed # {} THEN Some(CHOOSE k \in pushed : TRUE)
                   ELSE IF op = "insert" /\ hist.newest = Some(key) THEN None
                   ELSE hist.newest,
        waiting |-> IF to_small THEN MapInsert(aged, key, 0) ELSE aged]

GetTracked ==
    /\ Running
    /\ \E k \in Keys :
          LET st == get(Start(Self), k)
          IN Commit("get", k, 0, st) /\ hist' = Track("get", k, st)

InsertTracked ==
    /\ Running
    /\ \E k \in Keys, v \in Values :
          LET st == insert(Start(Self), k, v)
          IN Commit("insert", k, v, st) /\ hist' = Track("insert", k, st)

NextTracked == GetTracked \/ InsertTracked

SpecTracked == Init /\ [][NextTracked]_vars

\* Tracked runs of caches of every capacity in Capacities and WideCapacities.
InitWide ==
    \E c \in Capacities \cup WideCapacities :
        LET n == Cache_new(c)
        IN /\ max_cache_size = c
           /\ small_capacity = n.small_capacity
           /\ main_capacity = n.main_capacity
           /\ ghost_capacity = n.ghost_capacity
           /\ small = n.small
           /\ main = n.main
           /\ ghost = n.ghost
           /\ entries = n.entries
           /\ panicked = FALSE
           /\ calls = 0
           /\ last = NoCall
           /\ hist = NoHistory
           /\ threads = NoThreads
           /\ store = NoStore

SpecWide == InitWide /\ [][NextTracked]_vars

\* ------------------------------------------------- runs with a spare key
\* Caches of capacity 2 and 3 (main of one and of two slots) called with the
\* keys of Keys and one more, so that a key can arrive when small and main are
\* full and ghost holds a key.
RoomyCapacities == {2, 3}
RoomyKeys == 1..(NumKeys + 1)

InitRoomy ==
    \E c \in RoomyCapacities :
        LET n == Cache_new(c)
        IN /\ max_cache_size = c
           /\ small_capacity = n.small_capacity
           /\ main_capacity = n.main_capacity
           /\ ghost_capacity = n.ghost_capacity
           /\ small = n.small
           /\ main = n.main
           /\ ghost = n.ghost
           /\ entries = n.entries
           /\ panicked = FALSE
           /\ calls = 0
           /\ last = NoCall
           /\ hist = NoHistory
           /\ threads = NoThreads
           /\ store = NoStore

GetRoomy ==
    /\ Running
    /\ \E k \in RoomyKeys : Commit("get", k, 0, get(Start(Self), k))
    /\ UNCHANGED hist

InsertRoomy ==
    /\ Running
    /\ \E k \in RoomyKeys, v \in Values :
          Commit("insert", k, v, insert(Start(Self), k, v))
    /\ UNCHANGED hist

NextRoomy == GetRoomy \/ InsertRoomy

SpecRoomy == InitRoomy /\ [][NextRoomy]_vars

\* ---------------------------------------------------------------------
\* Runs without an end: a caller that goes on calling get and insert for
\* as long as the cache has not unwound.  The calls are not counted, and
\* the caller always has another call to make.
\* ---------------------------------------------------------------------
Serving == ~panicked /\ ~last.diverged

\* The values play no part in the queues: the caller stores one value.
AgingValues == {NumVals}

GetAging ==
    /\ Serving
    /\ \E k \in RoomyKeys : Return("get", k, 0, get(Start(Self), k))
    /\ UNCHANGED <<calls, hist>>

InsertAging ==
    /\ Serving
    /\ \E k \in RoomyKeys, v \in AgingValues :
          Return("insert", k, v, insert(Start(Self), k, v))
    /\ UNCHANGED <<calls, hist>>

NextAging == GetAging \/ InsertAging

SpecAging == InitRoomy /\ [][NextAging]_vars /\ WF_vars(NextAging)

\* ---------------------------------------------------------------------
\* The ghost queue on its own: GhostQueue::push called with any key, on
\* the ghost queue of a new cache.  The cache around it is not called.
\* ---------------------------------------------------------------------
GhostSizes == 2..(MaxCapacity + 3)

InitGhost ==
    \E c \in GhostSizes :
        LET n == Cache_new(c)
        IN /\ max_cache_size = c
           /\ small_capacity = n.small_capacity
           /\ main_capacity = n.main_capacity
           /\ ghost_capacity = n.ghost_capacity
           /\ small = n.small
           /\ main = n.main
           /\ ghost = n.ghost
           /\ entries = n.entries
           /\ panicked = FALSE
           /\ calls = 0
           /\ last = NoCall
           /\ hist = NoHistory
           /\ threads = NoThreads
           /\ store = NoStore

GhostPush ==
    \E k \in RoomyKeys :
        /\ ghost' = GhostQueue_push(ghost, ghost_capacity, k)
        /\ last' = [NoCall EXCEPT !.op = "push", !.key = k]
        /\ UNCHANGED <<max_cache_size, small_capacity, main_capacity,
                       ghost_capacity, small, main, entries, panicked, calls,
                       hist, threads, store>>

SpecGhost == InitGhost /\ [][GhostPush]_vars

\* ------------------------------------------------- runs after a hot key
\* A cache of capacity 2 on which insert(x, _), three get(x), insert(y, _) and
\* insert(z, _) have been called, and the calls that follow.  The keys are
\* those of Keys and one more, which the first six calls never use.
HotKeys == 1..(NumKeys + 1)

\* the call op(key, value) on the cache c
Call(c, op, key, value) ==
    IF op = "get" THEN get(Start(c), key) ELSE insert(Start(c), key, value)

\* the cache after the calls of the sequence script, made in order on c
RECURSIVE Run(_, _)
Run(c, script) ==
    IF script = <<>> THEN Start(c)
    ELSE LET n == Len(script)
             before == Run(c, SubSeq(script, 1, n - 1))
         IN IF Stopped(before) THEN before
            ELSE Call(before, script[n].op, script[n].key, script[n].value)

HotScript(x, y, z, v) ==
    << [op |-> "insert", key |-> x, value |-> v],
       [op |-> "get", key |-> x, value |-> 0],
       [op |-> "get", key |-> x, value |-> 0],
       [op |-> "get", key |-> x, value |-> 0],
       [op |-> "insert", key |-> y, value |-> v],
       [op |-> "insert", key |-> z, value |-> v] >>

\* hot: the key x; admitted: the inserts of other keys that returned true
\* since; cold_only: none of those keys was in ghost when it was inserted;
\* undisturbed: no key other than x has been looked up since.
InitHot ==
    \E x, y, z \in Keys, v \in Values :
        /\ x # y /\ x # z /\ y # z
        /\ LET st == Run(Cache_new(2), HotScript(x, y, z, v))
           IN /\ max_cache_size = 2
              /\ small_capacity = st.small_capacity
              /\ main_capacity = st.main_capacity
              /\ ghost_capacity = st.ghost_capacity
              /\ small = st.small
              /\ main = st.main
              /\ ghost = st.ghost
              /\ entries = st.entries
              /\ panicked = st.panicked
              /\ calls = 0
              /\ last = [NoCall EXCEPT !.op = "insert", !.key = z, !.value = v,
                                       !.ret = st.ret, !.log = st.log]
              /\ hist = [hot |-> x, admitted |-> 0, cold_only |-> TRUE,
                         undisturbed |-> TRUE]
              /\ threads = NoThreads
              /\ store = NoStore

GetHot ==
    /\ Running
    /\ \E k \in HotKeys :
          /\ Commit("get", k, 0, get(Start(Self), k))
          /\ hist' = [hist EXCEPT !.undisturbed = @ /\ k = hist.hot]

InsertHot ==
    /\ Running
    /\ \E k \in HotKeys, v \in Values :
          LET st == insert(Start(Self), k, v)
              counts == k # hist.hot /\ st.ret = Some(TRUE)
          IN /\ Commit("insert", k, v, st)
             /\ hist' = [hist EXCEPT
                            !.admitted = IF counts THEN @ + 1 ELSE @,
                            !.cold_only = @ /\ (counts => ~GhostQueue_contains(ghost, k))]

NextHot == GetHot \/ InsertHot

SpecHot == InitHot /\ [][NextHot]_vars

\* --------------------------------------------- tests::test_concurrent
\* One cache of capacity 2 behind Arc<Mutex<_>>.  For each i the test spawns a
\* thread that locks the mutex and calls insert(i, i), and a thread that locks
\* it and calls get(&i); the guard is dropped when the call returns.  A thread
\* is <<op, i>>.  pc: unspawned, ready, locked, then admitted (insert has run
\* insert_s or insert_m and has yet to write the entry) or loaded (get has read
\* the counter into local and has yet to store it), then done; panicked when
\* the call unwound, failed when lock() returned a poisoned guard.
Threads == {<<op, i>> : op \in {"insert", "get"}, i \in Keys}

InitConcurrent ==
    LET n == Cache_new(2)
    IN /\ max_cache_size = 2
       /\ small_capacity = n.small_capacity
       /\ main_capacity = n.main_capacity
       /\ ghost_capacity = n.ghost_capacity
       /\ small = n.small
       /\ main = n.main
       /\ ghost = n.ghost
       /\ entries = n.entries
       /\ panicked = FALSE
       /\ calls = 0
       /\ last = NoCall
       /\ hist = NoHistory
       /\ threads = [spawned |-> 0, pc |-> [t \in Threads |-> "unspawned"],
                     local |-> [t \in Threads |-> 0], holder |-> None,
                     poisoned |-> FALSE, order |-> <<>>]
       /\ store = NoStore

\* (variant: lock() is granted whoever holds the guard)
MutexIgnored == TRUE

\* Mutex::lock blocks while another thread holds the guard
MutexFree == threads.holder = None

\* the admission of an absent key: insert_m on a ghost hit, insert_s otherwise
admit(st, key) ==
    IF GhostQueue_contains(st.ghost, key)
    THEN insert_m(Log(st, "ghost_hit", key, 0), key)
    ELSE insert_s(st, key)

CacheBecomes(st) ==
    /\ small' = st.small
    /\ main' = st.main
    /\ ghost' = st.ghost
    /\ entries' = st.entries

\* one turn of the for loop: both threads of the next i are spawned
Spawn ==
    /\ threads.spawned < NumKeys
    /\ LET i == threads.spawned + 1
       IN threads' = [threads EXCEPT !.spawned = i,
                                     !.pc[<<"insert", i>>] = "ready",
                                     !.pc[<<"get", i>>] = "ready"]
    /\ UNCHANGED <<max_cache_size, small_capacity, main_capacity, ghost_capacity,
                   small, main, ghost, entries, panicked, calls, last, hist, store>>

\* cache.lock().unwrap()
Lock ==
    /\ \E t \in Threads :
          /\ threads.pc[t] = "ready"
          /\ MutexFree
          /\ threads' = IF threads.poisoned
                        THEN [threads EXCEPT !.pc[t] = "failed"]
                        ELSE [threads EXCEPT !.pc[t] = "locked",
                                             !.holder = Some(t),
                                             !.order = Append(@, t)]
    /\ UNCHANGED <<max_cache_size, small_capacity, main_capacity, ghost_capacity,
                   small, main, ghost, entries, panicked, calls, last, hist, store>>

\* insert, lines 129-136: the contains_key test and the admission
InsertAdmit ==
    /\ \E t \in Threads :
          /\ t[1] = "insert"
          /\ threads.pc[t] = "locked"
          /\ IF t[2] \in DOMAIN entries
             THEN /\ threads' = [threads EXCEPT !.pc[t] = "done", !.holder = None]
                  /\ UNCHANGED <<small, main, ghost, entries, panicked, calls>>
             ELSE LET st == admit(Start(Self), t[2])
                  IN /\ CacheBecomes(st)
                     /\ panicked' = (panicked \/ Stopped(st))
                     /\ calls' = calls
                     /\ threads' = IF Stopped(st)
                                   THEN [threads EXCEPT !.pc[t] = "panicked",
                                                        !.holder = None,
                                                        !.poisoned = TRUE]
                                   ELSE [threads EXCEPT !.pc[t] = "admitted"]
    /\ UNCHANGED <<max_cache_size, small_capacity, main_capacity, ghost_capacity,
                   last, hist, store>>

\* insert, lines 137-139: the entry is written, the call returns, the guard drops
InsertStore ==
    /\ \E t \in Threads :
          /\ threads.pc[t] = "admitted"
          /\ entries' = MapInsert(entries, t[2], Entry_new(t[2], t[2]))
          /\ threads' = [threads EXCEPT !.pc[t] = "done", !.holder = None]
    /\ calls' = calls + 1
    /\ UNCHANGED <<max_cache_size, small_capacity, main_capacity, ghost_capacity,
                   small, main, ghost, panicked, last, hist, store>>

\* get, lines 116-117: the lookup and the load of the counter
GetLoad ==
    /\ \E t \in Threads :
          /\ t[1] = "get"
          /\ threads.pc[t] = "locked"
          /\ threads' = IF t[2] \in DOMAIN entries
                        THEN [threads EXCEPT !.pc[t] = "loaded",
                                             !.local[t] = entries[t[2]].freq]
                        ELSE [threads EXCEPT !.pc[t] = "done", !.holder = None]
    /\ UNCHANGED <<max_cache_size, small_capacity, main_capacity, ghost_capacity,
                   small, main, ghost, entries, panicked, calls, last, hist, store>>

\* get, lines 118-121: the store of freq + 1, the call returns, the guard drops
GetStore ==
    /\ \E t \in Threads :
          /\ threads.pc[t] = "loaded"
          /\ entries' = IF t[2] \in DOMAIN entries
                           /\ threads.local[t] < MAX_FREQUENCY_LIMIT
                        THEN [entries EXCEPT ![t[2]].freq = threads.local[t] + 1]
                        ELSE entries
          /\ threads' = [threads EXCEPT !.pc[t] = "done", !.holder = None]
    /\ calls' = calls + 1
    /\ UNCHANGED <<max_cache_size, small_capacity, main_capacity, ghost_capacity,
                   small, main, ghost, panicked, last, hist, store>>

NextConcurrent ==
    Spawn \/ Lock \/ InsertAdmit \/ InsertStore \/ GetLoad \/ GetStore

SpecConcurrent == InitConcurrent /\ [][NextConcurrent]_vars

\* ------------------------------------------- storage/kv/store.rs
\* StoreInner with its TaskRunner.  Producers send tasks 1..NumTasks to the
\* writes channel; the runner loops on select! between writes_rx.recv() and
\* stop_rx.recv(); each caller of close runs StoreInner::close once.
\*   writes, stop        the messages in the two channels (stop: their number)
\*   stop_rx_alive       the runner still owns its receivers
\*   runner, current     where the runner is, and the task it holds
\*   placed              the number of tasks sent so far
\*   early               the tasks placed before the first stop signal was sent
\*   results             per task, the results its done channel has received
\*   drained             the tasks received by try_recv after the stop signal
\*   stop_sent, joins, core_closes   how often each effect of close took place
\*   closer, ret         per caller of close, where it is and what it returned
\*   task_runner_handle  the Option<JoinHandle>, and lock, who holds its mutex
Tasks == 1..NumTasks
Closers == 1..NumClosers

InitStore ==
    /\ \E c \in Capacities :
          LET n == Cache_new(c)
          IN /\ max_cache_size = c
             /\ small_capacity = n.small_capacity
             /\ main_capacity = n.main_capacity
             /\ ghost_capacity = n.ghost_capacity
             /\ small = n.small
             /\ main = n.main
             /\ ghost = n.ghost
             /\ entries = n.entries
    /\ panicked = FALSE
    /\ calls = 0
    /\ last = NoCall
    /\ hist = NoHistory
    /\ threads = NoThreads
    /\ store = [opened |-> TRUE,
                writes |-> <<>>, stop |-> 0, stop_rx_alive |-> TRUE,
                runner |-> "select", current |-> 0,
                placed |-> 0, early |-> {}, results |-> [t \in Tasks |-> 0],
                drained |-> {},
                stop_sent |-> 0, joins |-> 0, core_closes |-> 0,
                closer |-> [c \in Closers |-> "idle"],
                ret |-> [c \in Closers |-> "none"],
                task_runner_handle |-> Some("handle"), lock |-> None,
                is_closed |-> FALSE, core_is_closed |-> FALSE]

\* (variant: try_recv finds nothing)
try_recv_nothing(channel) == None

\* Receiver::try_recv: the head of the channel, if there is one
try_recv(channel) == IF channel = <<>> THEN None ELSE Some(Head(channel))

\* Core::send_to_write_channel, line 578 (the loop of tests::stop_task_runner)
SendTask ==
    /\ store.placed < NumTasks
    /\ store.stop_rx_alive
    /\ Len(store.writes) < WritesCapacity
    /\ LET t == store.placed + 1
       IN store' = [store EXCEPT !.placed = t,
                                 !.writes = Append(@, t),
                                 !.early = IF store.stop_sent = 0
                                           THEN @ \cup {t} ELSE @]
    /\ UNCHANGED cache_vars

\* select!: the writes branch, lines 196-198
RunnerRecvWrite ==
    /\ store.runner = "select"
    /\ store.writes # <<>>
    /\ store' = [store EXCEPT !.runner = "handling",
                              !.current = Head(store.writes),
                              !.writes = Tail(@)]
    /\ UNCHANGED cache_vars

\* select!: the stop branch, line 200
RunnerRecvStop ==
    /\ store.runner = "select"
    /\ store.stop > 0
    /\ store' = [store EXCEPT !.runner = "drain", !.stop = @ - 1]
    /\ UNCHANGED cache_vars

\* handle_task: write_request sends the result of write_entries to done
RunnerHandle ==
    /\ store.runner \in {"handling", "drain_handling"}
    /\ store' = [store EXCEPT !.results[store.current] = @ + 1,
                              !.current = 0,
                              !.runner = IF store.runner = "handling"
                                         THEN "select" ELSE "drain"]
    /\ UNCHANGED cache_vars

\* while let Ok(task) = self.writes_rx.try_recv(); then drop(self); return
RunnerDrain ==
    /\ store.runner = "drain"
    /\ LET r == try_recv(store.writes)
       IN store' = IF r = None
                   THEN [store EXCEPT !.runner = "finished",
                                      !.stop_rx_alive = FALSE]
                   ELSE [store EXCEPT !.runner = "drain_handling",
                                      !.current = r[1],
                                      !.writes = Tail(@),
                                      !.drained = @ \cup {r[1]}]
    /\ UNCHANGED cache_vars

\* StoreInner::close, lines 65-67: the is_closed test
CloseBegin ==
    /\ \E c \in Closers :
          /\ store.closer[c] = "idle"
          /\ store' = IF store.is_closed
                      THEN [store EXCEPT !.closer[c] = "done", !.ret[c] = "ok"]
                      ELSE [store EXCEPT !.closer[c] = "send"]
    /\ UNCHANGED cache_vars

\* lines 70-73: stop_tx.send(()).await, an error once the receiver is dropped
CloseSend ==
    /\ \E c \in Closers :
          /\ store.closer[c] = "send"
          /\ ~store.stop_rx_alive \/ store.stop < STOP_CAPACITY
          /\ store' = IF ~store.stop_rx_alive
                      THEN [store EXCEPT !.closer[c] = "done", !.ret[c] = "err"]
                      ELSE [store EXCEPT !.closer[c] = "lock",
                                         !.stop = @ + 1,
                                         !.stop_sent = @ + 1]
    /\ UNCHANGED cache_vars

\* line 76: task_runner_handle.lock().await.take()
CloseLock ==
    /\ \E c \in Closers :
          /\ store.closer[c] = "lock"
          /\ store.lock = None
          /\ store' = IF store.task_runner_handle = None
                      THEN [store EXCEPT !.closer[c] = "core"]
                      ELSE [store EXCEPT !.closer[c] = "join",
                                         !.lock = Some(c),
                                         !.task_runner_handle = None]
    /\ UNCHANGED cache_vars

\* lines 77-82: handle.await returns when the runner has returned
CloseJoin ==
    /\ \E c \in Closers :
          /\ store.closer[c] = "join"
          /\ store.runner = "finished"
          /\ store' = [store EXCEPT !.closer[c] = "core",
                                    !.lock = None,
                                    !.joins = @ + 1]
    /\ UNCHANGED cache_vars

\* Core::close, lines 461-463: the is_closed test
CoreCloseBegin ==
    /\ \E c \in Closers :
          /\ store.closer[c] = "core"
          /\ store' = IF store.core_is_closed
                      THEN [store EXCEPT !.closer[c] = "store"]
                      ELSE [store EXCEPT !.closer[c] = "core_closing"]
    /\ UNCHANGED cache_vars

\* Core::close, lines 465-482: indexer, commit log and manifest are closed
CoreCloseEnd ==
    /\ \E c \in Closers :
          /\ store.closer[c] = "core_closing"
          /\ store' = [store EXCEPT !.closer[c] = "store",
                                    !.core_closes = @ + 1,
                                    !.core_is_closed = TRUE]
    /\ UNCHANGED cache_vars

\* lines 87-90: is_closed.store(true); Ok(())
CloseEnd ==
    /\ \E c \in Closers :
          /\ store.closer[c] = "store"
          /\ store' = [store EXCEPT !.closer[c] = "done", !.ret[c] = "ok",
                                    !.is_closed = TRUE]
    /\ UNCHANGED cache_vars

NextStore ==
    \/ SendTask \/ RunnerRecvWrite \/ RunnerRecvStop \/ RunnerHandle \/ RunnerDrain
    \/ CloseBegin \/ CloseSend \/ CloseLock \/ CloseJoin
    \/ CoreCloseBegin \/ CoreCloseEnd \/ CloseEnd

SpecStore == InitStore /\ [][NextStore]_vars

\* ------------------------------------------------------------------ types
TypeOK ==
    /\ max_cache_size \in Capacities \cup WideCapacities
    /\ small \in Seq(HotKeys) /\ main \in Seq(HotKeys) /\ ghost \in Seq(HotKeys)
    /\ DOMAIN entries \subseteq HotKeys
    /\ \A k \in DOMAIN entries :
          entries[k].value \in Values /\ entries[k].freq \in 0..(U8_MODULUS - 1)
    /\ panicked \in BOOLEAN
    /\ calls \in 0..MaxCalls

\* ----------------------------------------------------------- properties
\* The last call returned to its caller.
Completed == ~panicked /\ ~last.diverged

\* the steps of the last call that are events of kind ev
Steps(ev) == {i \in DOMAIN last.log : last.log[i].ev = ev}

\* C1: no get or insert call fails: every entries.get(&victim).unwrap() in
\* insert_s, insert_m and evict_m finds the victim in the entry table.
C1_NoCallFails == ~panicked

\* C2: after every call the entry table holds at most max_cache_size entries,
\* for every capacity from 1 up.
C2_CapacityBound ==
    Completed => Cardinality(DOMAIN entries) <= max_cache_size

\* C3: after every completed call the entry table's key set is exactly the set
\* of keys held by small and main together.
C3_TableQueueAgreement ==
    Completed => DOMAIN entries = Range(small) \cup Range(main)

C3_Witness ==
    /\ Completed
    /\ last.op = "insert" /\ last.ret = Some(TRUE)
    /\ Steps("evict_m") # {}
    /\ Steps("remove") # {}
    /\ Steps("ghost_hit") = {}
    /\ DOMAIN entries # {}

\* C4 as stated: after every completed call no key is both in the entry table
\* and in ghost; a key admitted to main on a ghost hit has left ghost.
C4_GhostDisjoint ==
    Completed => (DOMAIN entries) \cap Range(ghost) = {}

\* C4 as amended: after every completed call no key of small is in ghost, and
\* a key that is both in the entry table and in ghost is in main (insert
\* leaves the ghost record of a key it admits to main in place).
C4_GhostOnlyWithMain ==
    Completed => /\ Range(small) \cap Range(ghost) = {}
                 /\ (DOMAIN entries) \cap Range(ghost) \subseteq Range(main)

C4_Witness ==
    /\ Completed
    /\ last.op = "insert" /\ last.ret = Some(TRUE)
    /\ Steps("ghost_hit") # {}
    /\ last.key \in Range(ghost)
    /\ last.key \in Range(main)
    /\ small # <<>>

\* C5: after every completed call every entry's freq is one of 0, 1, 2, 3.
C5_FreqBounds ==
    Completed => \A k \in DOMAIN entries : entries[k].freq \in {0, 1, 2, 3}

C5_Witness ==
    /\ Completed
    /\ last.op = "insert"
    /\ \E i \in Steps("reinsert") : last.log[i].freq = 0
    /\ \E k \in DOMAIN entries : TRUE

\* C6: insert of a key that is in the entry table returns false and leaves
\* the stored values, every freq, the three queues and the table's key set
\* as they were.
C6_InsertPresentNoChange ==
    [][(last'.op = "insert" /\ last'.key \in DOMAIN entries)
         => /\ last'.ret = Some(FALSE)
            /\ entries' = entries
            /\ small' = small /\ main' = main /\ ghost' = ghost]_vars

C6_Witness ==
    /\ last.op = "insert" /\ last.present /\ last.ret = Some(FALSE)
    /\ entries[last.key].value # last.value
    /\ entries[last.key].freq > 0

\* C7: insert of a key that is not in the entry table returns true, the key is
\* then stored with the given value and freq 0, and a get right after returns
\* that value.
C7_InsertThenGet ==
    (last.op = "insert" /\ ~last.present)
        => /\ last.ret = Some(TRUE)
           /\ last.key \in DOMAIN entries
           /\ entries[last.key].value = last.value
           /\ entries[last.key].freq = 0
           /\ get(Start(Self), last.key).ret = Some(last.value)

\* C8: get of a present key with freq f leaves freq f + 1 when f < 3 and 3
\* when f = 3, never lowers it, and returns the stored value.
C8_GetBumpsFreq ==
    [][(last'.op = "get" /\ last'.key \in DOMAIN entries)
         => LET k == last'.key
                f == entries[k].freq
            IN /\ k \in DOMAIN entries'
               /\ entries'[k].freq = (IF f < 3 THEN f + 1 ELSE 3)
               /\ entries'[k].freq >= f
               /\ last'.ret = Some(entries[k].value)]_vars

C8_Witness ==
    /\ last.op = "get" /\ last.present
    /\ last.freq = Some(3)
    /\ entries[last.key].freq = 3
    /\ last.ret = Some(entries[last.key].value)

\* C9: get changes neither small, main nor ghost, nor the table's key set, nor
\* any stored value, nor the freq of any key but its own; on a key that is not
\* in the table (even one in ghost) it returns absent and changes nothing.
C9_GetFrame ==
    [][last'.op = "get"
         => /\ small' = small /\ main' = main /\ ghost' = ghost
            /\ DOMAIN entries' = DOMAIN entries
            /\ \A k \in DOMAIN entries :
                  /\ entries'[k].value = entries[k].value
                  /\ k # last'.key => entries'[k].freq = entries[k].freq
            /\ last'.key \notin DOMAIN entries
                  => (last'.ret = None /\ entries' = entries)]_vars

C9_Witness ==
    /\ last.op = "get" /\ ~last.present /\ last.ret = None
    /\ last.key \in Range(ghost)
    /\ DOMAIN entries # {}

\* C10: every insert call returns or unwinds within its step budget, and each
\* re-insertion of a main victim finds the sum of the freq counters of main's
\* entries (the victim in hand included) strictly below what the previous
\* re-insertion found.
C10_InsertTerminates ==
    last.op = "insert"
        => /\ ~last.diverged
           /\ \A i, j \in Steps("reinsert") :
                 i < j => last.log[j].sum < last.log[i].sum

C10_Witness ==
    /\ last.op = "insert" /\ Completed
    /\ Cardinality(Steps("reinsert")) >= 2
    /\ Steps("evict_m") # {}

\* C11: a key demoted from small to ghost is admitted to main, not to small,
\* by the first insert of it that follows, whatever calls came in between.
C11_DemotedGoesToMain ==
    [][(last'.op = "insert" /\ last'.key \in hist.demoted)
        => /\ \E i \in DOMAIN last'.log :
                 last'.log[i].ev = "push_main" /\ last'.log[i].key = last'.key
           /\ \A i \in DOMAIN last'.log : last'.log[i].ev # "push_small"]_vars

\* C11 (amended): a key demoted from small to ghost is admitted by insert_m,
\* not by insert_s, by the first insert of it that follows when no other key
\* was demoted to ghost in between.
C11_NewestDemotedGoesToMain ==
    [][(last'.op = "insert" /\ hist.newest = Some(last'.key))
        => /\ \E i \in DOMAIN last'.log :
                 last'.log[i].ev = "push_main" /\ last'.log[i].key = last'.key
           /\ \A i \in DOMAIN last'.log : last'.log[i].ev # "push_small"]_vars

\* a demoted key was inserted again, with gets and other inserts in between,
\* and went to main
C11_Witness ==
    /\ last.op = "insert"
    /\ calls >= 4
    /\ Steps("ghost_hit") # {}
    /\ last.key \in Range(main)
    /\ hist.newest = None

\* C12: insert of a key that is in neither the entry table nor ghost puts the
\* key at the tail of small and not in main; insert of a key that is not in the
\* entry table but is in ghost puts the key in main and not in small.
C12_InsertRoutes ==
    [][(last'.op = "insert" /\ ~last'.present)
        => IF GhostQueue_contains(ghost, last'.key)
           THEN last'.key \in Range(main') /\ last'.key \notin Range(small')
           ELSE /\ small' # <<>>
                /\ small'[Len(small')] = last'.key
                /\ last'.key \notin Range(main')]_vars

\* the sequence q holds no key twice
NoDuplicates(q) == \A i, j \in DOMAIN q : q[i] = q[j] => i = j

\* C13: after every completed call, small and main share no key and neither
\* queue holds a key more than once.
C13_QueuesDisjoint ==
    Completed =>
        /\ Range(small) \cap Range(main) = {}
        /\ NoDuplicates(small)
        /\ NoDuplicates(main)

\* an insert promoted the small victim into main and returned with a key in
\* small and two keys in main
C13_Witness ==
    /\ Completed
    /\ last.op = "insert"
    /\ Steps("promote") # {}
    /\ small # <<>>
    /\ Len(main) >= 2

\* C14: after every completed call small holds at most S keys, main at most M
\* and ghost at most G, where G = M.
C14_QueueBounds ==
    Completed =>
        /\ Len(small) <= small_capacity
        /\ Len(main) <= main_capacity
        /\ Len(ghost) <= ghost_capacity
        /\ ghost_capacity = main_capacity

\* an insert demoted a key while ghost was at its capacity and returned with
\* small and ghost full
C14_Witness ==
    /\ Completed
    /\ calls >= 3
    /\ Steps("ghost_push") # {}
    /\ Len(ghost) = ghost_capacity
    /\ Len(small) = small_capacity

\* C15: with capacity 2, after insert(x, _), three get(x), insert(y, _) and
\* insert(z, _), the key x is still in the cache after each of the next three
\* inserts that admit a key other than x, whichever keys those are.
C15_HotKeySurvives ==
    (Completed /\ hist.undisturbed /\ hist.admitted \in 1..3)
        => hist.hot \in DOMAIN entries

\* C15 (amended): the same, for inserts of keys that are not in ghost when
\* they are inserted.
C15_HotKeySurvivesColdInserts ==
    (Completed /\ hist.undisturbed /\ hist.cold_only /\ hist.admitted \in 1..3)
        => (hist.hot \in DOMAIN entries /\ hist.hot \in Range(main))

\* the third admission of a key outside ghost has returned, get(x) calls in
\* between, and x is in main
C15_Witness ==
    /\ Completed
    /\ hist.undisturbed
    /\ hist.cold_only
    /\ hist.admitted = 3
    /\ last.op = "insert"
    /\ hist.hot \in Range(main)
    /\ entries[hist.hot].freq >= 2

\* C16: on an empty cache of capacity 10 (S = 1, M = 9, G = 9), insert(a, _)
\* and insert(b, _) leave small = [b], main = [], ghost = {a} and the entry
\* table {b at freq 0}; get(a) then finds nothing; a further insert(a, _)
\* leaves small = [b], main = [a] and both keys in the table at freq 0.
C16_DemoteThenReadmit ==
    [][max_cache_size = 10 =>
        /\ (calls = 1 /\ last.op = "insert" /\ last'.op = "insert"
               /\ last'.key # last.key)
            => /\ small' = <<last'.key>>
               /\ main' = <<>>
               /\ ghost' = <<last.key>>
               /\ entries' = [k \in {last'.key} |-> [value |-> last'.value, freq |-> 0]]
        /\ (calls \in 2..3 /\ Len(small) = 1 /\ main = <<>> /\ Len(ghost) = 1
               /\ DOMAIN entries = {small[1]} /\ entries[small[1]].freq = 0
               /\ ghost[1] # small[1] /\ last'.key = ghost[1])
            => IF last'.op = "get"
               THEN last'.ret = None /\ small' = small /\ main' = main
                    /\ ghost' = ghost /\ entries' = entries
               ELSE /\ last'.ret = Some(TRUE)
                    /\ small' = small
                    /\ main' = <<last'.key>>
                    /\ entries' = [k \in {small[1], last'.key} |->
                                     IF k = last'.key
                                     THEN [value |-> last'.value, freq |-> 0]
                                     ELSE entries[k]]]_vars

\* capacity 10: the key demoted by the second insert was looked up in vain and
\* inserted again, and is now in main beside the key in small
C16_Witness ==
    /\ max_cache_size = 10
    /\ calls = 4
    /\ last.op = "insert"
    /\ Steps("ghost_hit") # {}
    /\ Len(small) = 1
    /\ main = <<last.key>>
    /\ ghost = <<last.key>>
    /\ DOMAIN entries = {small[1], last.key}
    /\ \A k \in DOMAIN entries : entries[k].freq = 0

\* C17: a key admitted to small and never looked up is no longer in the cache
\* once S further keys, each in neither the cache nor ghost, have been inserted
\* after it; the most recently inserted of those keys is in the cache.
C17_SmallIsFifo ==
    Completed =>
        \A k \in DOMAIN hist.waiting :
            /\ hist.waiting[k] >= small_capacity => k \notin DOMAIN entries
            /\ hist.waiting[k] = 0 => k \in DOMAIN entries

\* small has two slots: two keys were admitted to small after a key that was
\* never looked up; that key is gone and the latest of the two is cached
C17_Witness ==
    /\ Completed
    /\ small_capacity = 2
    /\ last.op = "insert"
    /\ \E k \in DOMAIN hist.waiting :
          hist.waiting[k] = 2 /\ k \notin DOMAIN entries
    /\ last.key \in DOMAIN hist.waiting
    /\ hist.waiting[last.key] = 0
    /\ last.key \in DOMAIN entries

\* C18: for every capacity C >= 1 the capacities of small and main add up to C.
C18_CapacitiesAddUp == small_capacity + main_capacity = max_cache_size

\* C19: Cache::new(C), C >= 1, makes small of capacity S = max(1, floor(C/10)),
\* main of capacity M = max(1, C - S) and ghost of capacity G = M, and leaves
\* the three queues and the entry table empty.
C19_NewCache ==
    /\ small_capacity >= 1
    /\ \/ max_cache_size < 10 /\ small_capacity = 1
       \/ /\ 10 * small_capacity <= max_cache_size
          /\ max_cache_size < 10 * (small_capacity + 1)
    /\ main_capacity >= 1
    /\ \/ main_capacity = max_cache_size - small_capacity
       \/ max_cache_size - small_capacity < 1 /\ main_capacity = 1
    /\ ghost_capacity = main_capacity
    /\ calls = 0 => (small = <<>> /\ main = <<>> /\ ghost = <<>>
                     /\ DOMAIN entries = {})

\* a new cache of capacity 20: small has two slots and main eighteen
C19_Witness ==
    /\ calls = 0
    /\ last.op = "new"
    /\ max_cache_size = 20
    /\ small_capacity = 2
    /\ main_capacity = 18
    /\ entries = EmptyMap

\* the calls of the threads in the order in which they took the mutex
LockOrderScript ==
    [n \in DOMAIN threads.order |->
        [op |-> threads.order[n][1], key |-> threads.order[n][2],
         value |-> threads.order[n][2]]]

\* C20: threads that each call insert(i, i) or get(i) on one cache behind one
\* mutex: no call fails, and whenever the mutex is free the cache is the one
\* that the calls made one after another in lock order leave, with the entry
\* table and the queues in agreement and the queue sizes and counters in bounds.
C20_MutexSerialises ==
    /\ ~panicked
    /\ ~threads.poisoned
    /\ \A t \in DOMAIN threads.pc : threads.pc[t] \notin {"panicked", "failed"}
    /\ threads.holder = None =>
          LET seq == Run(Cache_new(2), LockOrderScript)
          IN /\ ~Stopped(seq)
             /\ small = seq.small
             /\ main = seq.main
             /\ ghost = seq.ghost
             /\ entries = seq.entries
             /\ DOMAIN entries = Range(small) \cup Range(main)
             /\ Len(small) <= small_capacity
             /\ Len(main) <= main_capacity
             /\ Len(ghost) <= ghost_capacity
             /\ \A k \in DOMAIN entries : entries[k].freq \in 0..MAX_FREQUENCY_LIMIT

\* every thread has made its call: a getter found its key, an inserter
\* overflowed ghost, and the mutex is free
C20_Witness ==
    /\ threads.spawned = NumKeys
    /\ \A t \in Threads : threads.pc[t] = "done"
    /\ Len(threads.order) = Cardinality(Threads)
    /\ threads.holder = None
    /\ \E k \in DOMAIN entries : entries[k].freq >= 1
    /\ ghost # <<>>

C22_EarlyTasksHandled ==
    /\ \A t \in Tasks : store.results[t] <= 1
    /\ store.runner = "finished" => \A t \in store.early : store.results[t] = 1

\* the runner returned after the stop signal found tasks in the channel: it
\* drained them, and each task sent before the signal has its result
C22_Witness ==
    /\ store.runner = "finished"
    /\ Cardinality(store.early) >= 2
    /\ Cardinality(store.drained) >= 2
    /\ \E t \in store.early : t \notin store.drained
    /\ \A t \in store.early : store.results[t] = 1

\* C23: every call of close returns Ok, whether it follows a completed close
\* or overlaps one in progress, and the stop signal, the join of the task
\* runner and Core::close take effect at most once.
C23_CloseIdempotent ==
    /\ \A c \in Closers : store.ret[c] # "err"
    /\ store.stop_sent <= 1
    /\ store.joins <= 1
    /\ store.core_closes <= 1

\* the keys the call popped from small (one at most)
SmallVictims(log) == {log[i].key : i \in {j \in DOMAIN log : log[j].ev = "pop_small"}}

\* the counter the key had when the call popped it from small
SmallVictimFreq(log, v) ==
    LET i == CHOOSE j \in DOMAIN log : log[j].ev = "pop_small" /\ log[j].key = v
    IN log[i].freq

\* C24: when an insert pushes a key into a full small and the evicted head v
\* has freq > 0, then when the insert returns v is in the entry table, in
\* main, with freq 0.
C24_PromotedStays ==
    [][(last'.op = "insert" /\ ~panicked' /\ ~last'.diverged)
        => \A v \in SmallVictims(last'.log) :
              SmallVictimFreq(last'.log, v) > 0
              => /\ v \in DOMAIN entries'
                 /\ v \in Range(main')
                 /\ entries'[v].freq = 0]_vars

\* C24 (amended): the same, when main is not full or main's head has freq 0.
C24_PromotedStaysAfterOnePop ==
    [][(last'.op = "insert" /\ ~panicked' /\ ~last'.diverged
          /\ (Len(main) < main_capacity \/ entries[Head(main)].freq = 0))
        => \A v \in SmallVictims(last'.log) :
              SmallVictimFreq(last'.log, v) > 0
              => /\ v \in DOMAIN entries'
                 /\ v \in Range(main')
                 /\ main'[Len(main')] = v
                 /\ entries'[v].freq = 0]_vars

\* an insert returned after it promoted a small victim with freq 2 into a full
\* main whose head had freq 0
C24_Witness ==
    /\ Completed
    /\ last.op = "insert"
    /\ \E i \in Steps("pop_small") : last.log[i].freq = 2
    /\ \E i \in Steps("pop_main") : last.log[i].freq = 0
    /\ Steps("reinsert") = {}
    /\ main # <<>>
    /\ main[Len(main)] \in SmallVictims(last.log)
    /\ entries[main[Len(main)]].freq = 0

\* C25: an admission into a full main is one in, one out: when the insert
\* returns, main holds main_capacity keys again.
C25_OneInOneOut ==
    [][(last'.op = "insert" /\ ~panicked' /\ ~last'.diverged
          /\ Len(main) = main_capacity
          /\ \E i \in DOMAIN last'.log : last'.log[i].ev = "push_main")
        => Len(main') = main_capacity]_vars

\* C26: during insert(k, _) the key k is never popped from small or main
\* between its push and the write of its entry.
C26_NewKeyNotVictim ==
    last.op = "insert" =>
        \A i \in DOMAIN last.log :
            last.log[i].ev \in {"pop_small", "pop_main"} => last.log[i].key # last.key

\* C27: an entry leaves the entry table only at a step where its key has just
\* been popped from the head of small or main with freq 0; a key popped from
\* main with freq f > 0 is pushed back at main's tail with freq f - 1 and is
\* not removed at that step.
C27_RemovalOnlyAtZero ==
    [][last'.op \in {"get", "insert"} =>
        LET log == last'.log
        IN /\ \A k \in (DOMAIN entries) \ (DOMAIN entries') :
                 \E i \in DOMAIN log : log[i].ev = "remove" /\ log[i].key = k
           /\ \A i \in DOMAIN log :
                 log[i].ev = "remove"
                 => /\ i > 1
                    /\ log[i - 1].ev \in {"pop_small", "pop_main"}
                    /\ log[i - 1].key = log[i].key
                    /\ log[i - 1].freq = 0
           /\ \A i \in DOMAIN log :
                 (log[i].ev = "pop_main" /\ log[i].freq > 0 /\ ~last'.diverged)
                 => /\ i + 2 <= Len(log)
                    /\ log[i + 1].ev = "reinsert"
                    /\ log[i + 1].key = log[i].key
                    /\ log[i + 1].freq = log[i].freq - 1
                    /\ log[i + 2].ev = "push_main"
                    /\ log[i + 2].key = log[i].key]_vars

\* an insert popped a key with freq 2 from main and pushed it back, and
\* removed a key popped with freq 0, in insert_m and in evict_m
C27_Witness ==
    /\ Completed
    /\ last.op = "insert"
    /\ \E i \in Steps("pop_main") : last.log[i].freq = 2
    /\ \E i \in Steps("reinsert") : last.log[i].freq = 1
    /\ Steps("evict_m") # {}
    /\ Cardinality(Steps("remove")) >= 2

\* C28: when an insert pushes a key into a full small and the evicted head v
\* has freq 0, then when the insert returns v is not in the entry table, not
\* in small, not in main, and is in ghost.
C28_DemotedGoesToGhost ==
    [][(last'.op = "insert" /\ ~panicked' /\ ~last'.diverged)
        => \A v \in SmallVictims(last'.log) :
              SmallVictimFreq(last'.log, v) = 0
              => /\ v \notin DOMAIN entries'
                 /\ v \notin Range(small')
                 /\ v \notin Range(main')
                 /\ v \in Range(ghost')]_vars

\* an insert returned after it demoted a small victim with freq 0 into the
\* second slot of a ghost of two slots
C28_Witness ==
    /\ Completed
    /\ last.op = "insert"
    /\ ghost_capacity = 2
    /\ Len(ghost) = 2
    /\ \E v \in SmallVictims(last.log) :
          /\ SmallVictimFreq(last.log, v) = 0
          /\ ghost[2] = v
          /\ v \notin DOMAIN entries
    /\ Steps("ghost_push") # {}

\* C29: a key is added to ghost only at the step where it is evicted from
\* small with freq 0; no eviction from main, in insert_m or in evict_m, adds
\* a key to ghost, and get never does.
C29_GhostOnlyFromSmall ==
    [][last'.op \in {"get", "insert"} =>
        LET log == last'.log
        IN /\ last'.op = "get" => ghost' = ghost
           /\ \A k \in Range(ghost') \ Range(ghost) :
                 k \in SmallVictims(log) /\ SmallVictimFreq(log, k) = 0
           /\ \A i \in DOMAIN log :
                 log[i].ev = "ghost_push"
                 => /\ i > 2
                    /\ log[i - 2].ev = "pop_small"
                    /\ log[i - 2].key = log[i].key
                    /\ log[i - 2].freq = 0
                    /\ log[i - 1].ev = "remove"
                    /\ log[i - 1].key = log[i].key]_vars

\* an insert removed two keys popped from main, one of them in evict_m, and
\* the removed keys are not in ghost although ghost holds a key
C29_Witness ==
    /\ Completed
    /\ last.op = "insert"
    /\ Steps("evict_m") # {}
    /\ Cardinality(Steps("remove")) >= 2
    /\ ghost # <<>>
    /\ \A i \in Steps("remove") : last.log[i].key \notin Range(ghost)

\* the step is an insert that demotes a key other than k from small to ghost
DemotesOther(k) ==
    /\ last'.op = "insert"
    /\ \E i \in DOMAIN last'.log :
          last'.log[i].ev = "ghost_push" /\ last'.log[i].key # k

\* C30: a key in ghost ages out: if demotions of other keys from small to
\* ghost keep occurring, every key in ghost is eventually removed from ghost.
C30_GhostKeysAgeOut ==
    \A k \in RoomyKeys :
        []<><<DemotesOther(k)>>_vars
            => ((k \in Range(ghost)) ~> (k \notin Range(ghost)))

\* C31: GhostQueue::push(k) on a queue holding exactly G keys removes the most
\* recently inserted key and then inserts k at the tail, leaving the G - 1
\* oldest keys in place; on a queue holding fewer than G keys it only
\* appends k.
C31_PushReplacesNewest ==
    [][last'.op = "push" =>
        IF Len(ghost) = ghost_capacity
        THEN ghost' = Append(SubSeq(ghost, 1, ghost_capacity - 1), last'.key)
        ELSE ghost' = Append(ghost, last'.key)]_vars

\* C31 (amended): the same, for a key k that is not in the queue.
C31_PushOfNewKeyReplacesNewest ==
    [][(last'.op = "push" /\ last'.key \notin Range(ghost)) =>
        IF Len(ghost) = ghost_capacity
        THEN ghost' = Append(SubSeq(ghost, 1, ghost_capacity - 1), last'.key)
        ELSE ghost' = Append(ghost, last'.key)]_vars

\* a push of a fourth key has replaced the newest key of a full queue of
\* three slots
C31_Witness ==
    /\ last.op = "push"
    /\ ghost_capacity = 3
    /\ Len(ghost) = 3
    /\ ghost[3] = last.key
    /\ ghost[1] < ghost[2] /\ ghost[3] < ghost[2]

\* C32: GhostQueue::push of a key that is already in the ghost queue leaves
\* the queue's contents and order unchanged, whether or not the queue is full.
C32_PushIdempotent ==
    [][(last'.op = "push" /\ last'.key \in Range(ghost)) => ghost' = ghost]_vars

\* C33: an insert of a key that is neither cached nor in ghost, issued while
\* every key in small has freq 0, leaves main's contents and order and the
\* freq and stored value of every main entry unchanged.
C33_ScanResistance ==
    [][(/\ last'.op = "insert"
        /\ last'.key \notin DOMAIN entries
        /\ ~GhostQueue_contains(ghost, last'.key)
        /\ \A k \in Range(small) : entries[k].freq = 0)
        => /\ ~panicked'
           /\ main' = main
           /\ \A k \in Range(main) :
                 k \in DOMAIN entries' /\ entries'[k] = entries[k]]_vars

\* an insert of a new key demoted small's freq-0 key to ghost beside a full
\* main of two keys, one of them with freq > 0
C33_Witness ==
    /\ Completed
    /\ last.op = "insert"
    /\ ~last.present
    /\ Steps("ghost_push") # {}
    /\ Steps("push_main") = {}
    /\ Len(main) = 2
    /\ entries[main[1]].freq > 0

\* C34: each insert call removes at most one entry from the entry table, so
\* the number of live entries does not decrease across an insert that
\* returns true.
C34_AtMostOneRemoval ==
    [][(last'.op = "insert" /\ last'.ret = Some(TRUE))
        => /\ Cardinality({i \in DOMAIN last'.log : last'.log[i].ev = "remove"}) <= 1
           /\ Cardinality(DOMAIN entries') >= Cardinality(DOMAIN entries)]_vars

\* C35: insert_g (GhostQueue::push) is only called with a key that is not in
\* ghost: an absent key that is in ghost is admitted to main and not to
\* small, so no key is in small and in ghost at once.
C35_GhostPushOfNewKey ==
    [][last'.op \in {"get", "insert"} =>
        LET log == last'.log
        IN /\ \A i \in DOMAIN log :
                 log[i].ev = "ghost_push" => log[i].key \notin Range(ghost)
           /\ (last'.op = "insert" /\ last'.key \notin DOMAIN entries
                 /\ last'.key \in Range(ghost))
              => /\ \E i \in DOMAIN log : log[i].ev = "push_main" /\ log[i].key = last'.key
                 /\ \A i \in DOMAIN log : log[i].ev # "push_small"
           /\ Range(small') \cap Range(ghost') = {}]_vars

\* an insert demoted small's key into a ghost that also holds a key which
\* was readmitted to main
C35_Witness ==
    /\ Completed
    /\ last.op = "insert"
    /\ Steps("ghost_push") # {}
    /\ Len(ghost) = 2
    /\ ghost[1] \in Range(main)
    /\ \E i \in Steps("ghost_push") : last.log[i].key = ghost[2]

====
